---- MODULE Spec2Model ----
(***************************************************************************)
(* A model of src/Codehelp.py (CodeCombinerApp): the ordered file list     *)
(* with its checked set, single-file copy, paste reconciliation, the       *)
(* bounded per-file version history, and the combined-code output.         *)
(*                                                                         *)
(* A text is a sequence of tokens: the characters "\n", "\f", " ", "#",    *)
(* "/" and atomic words (file and directory names, body words).  A path is *)
(* a record [dir |-> absolute directory segments, name |-> file name].     *)
(* The disk holds, per path, the decoded text of the file, or that the     *)
(* file is absent, or that it cannot be decoded as UTF-8.                  *)
(***************************************************************************)
EXTENDS Naturals, Sequences, FiniteSets

(***************************************************************************)
(* Bounds of the model.                                                    *)
(***************************************************************************)
MaxStored == 2
MaxUpload == 2
MaxDiskPieces == 2
MaxClipPieces == 2
MaxTextOps == 2
MaxDiskLen == 5
MaxClipLen == 7

(***************************************************************************)
(* Program constants.                                                      *)
(***************************************************************************)
HistoryLimit == 5

(***************************************************************************)
(* Text primitives of Python's str, on token sequences.                    *)
(***************************************************************************)
NL == "\n"
FF == "\f"
CR == "\r"
SP == " "

\* str.strip(): the characters removed from both ends.
IsSpace(c) == c \in {SP, NL, FF, CR}

\* str.splitlines(): the line boundaries (form feed is one, as are "\n" and
\* "\r"; "\r\n" is a single boundary).
IsSplitBreak(c) == c \in {NL, FF, CR}

RECURSIVE LStrip(_)
LStrip(s) ==
  IF s = <<>> THEN s
  ELSE IF IsSpace(Head(s)) THEN LStrip(Tail(s)) ELSE s

RECURSIVE RStrip(_)
RStrip(s) ==
  IF s = <<>> THEN s
  ELSE IF IsSpace(s[Len(s)]) THEN RStrip(SubSeq(s, 1, Len(s) - 1)) ELSE s

strip(s) == RStrip(LStrip(s))

RECURSIVE SplitAcc(_, _, _)
SplitAcc(s, cur, acc) ==
  IF s = <<>> THEN (IF cur = <<>> THEN acc ELSE Append(acc, cur))
  ELSE IF Head(s) = CR /\ Len(s) > 1 /\ s[2] = NL
    THEN SplitAcc(Tail(Tail(s)), <<>>, Append(acc, cur))
  ELSE IF IsSplitBreak(Head(s)) THEN SplitAcc(Tail(s), <<>>, Append(acc, cur))
  ELSE SplitAcc(Tail(s), Append(cur, Head(s)), acc)

\* str.splitlines(): the lines without their terminators; no empty last line.
splitlines(s) == SplitAcc(s, <<>>, <<>>)

RECURSIVE universal_newlines(_)
\* Reading in text mode (open("r"), Path.read_text): "\r\n" and "\r" arrive as
\* "\n".  Writing in text mode leaves "\n" as it is (os.linesep of POSIX).
universal_newlines(s) ==
  IF s = <<>> THEN s
  ELSE IF Head(s) = CR /\ Len(s) > 1 /\ s[2] = NL
    THEN <<NL>> \o universal_newlines(Tail(Tail(s)))
  ELSE IF Head(s) = CR THEN <<NL>> \o universal_newlines(Tail(s))
  ELSE <<Head(s)>> \o universal_newlines(Tail(s))

RECURSIVE ReadAcc(_, _, _)
ReadAcc(s, cur, acc) ==
  IF s = <<>> THEN (IF cur = <<>> THEN acc ELSE Append(acc, cur))
  ELSE IF Head(s) = NL THEN ReadAcc(Tail(s), <<>>, Append(acc, Append(cur, NL)))
  ELSE ReadAcc(Tail(s), Append(cur, Head(s)), acc)

\* file.readlines(): the lines with their "\n" kept; only "\n" ends a line.
readlines(s) == ReadAcc(s, <<>>, <<>>)

RECURSIVE Concat(_)
\* "".join(lines)
Concat(lines) == IF lines = <<>> THEN <<>> ELSE Head(lines) \o Concat(Tail(lines))

RECURSIVE JoinNL(_)
\* "\n".join(lines)
JoinNL(lines) ==
  IF lines = <<>> THEN <<>>
  ELSE IF Len(lines) = 1 THEN Head(lines)
  ELSE Head(lines) \o <<NL>> \o JoinNL(Tail(lines))

(***************************************************************************)
(* Paths (pathlib.Path).                                                   *)
(***************************************************************************)
Path(d, n) == [dir |-> d, name |-> n]

RECURSIVE JoinSegs(_)
\* The segments of a relative path joined by "/".
JoinSegs(segs) ==
  IF segs = <<>> THEN <<>>
  ELSE IF Len(segs) = 1 THEN segs
  ELSE <<Head(segs), "/">> \o JoinSegs(Tail(segs))

\* Path.as_posix() of an absolute directory or file.
AbsPosix(segs) == <<"/">> \o JoinSegs(segs)

as_posix(p) == AbsPosix(Append(p.dir, p.name))

IsPrefix(a, b) == Len(a) <= Len(b) /\ SubSeq(b, 1, Len(a)) = a

\* Path.relative_to(root).as_posix(); "." when the two are the same directory.
RelSegs(segs, root) ==
  IF Len(segs) = Len(root) THEN <<".">>
  ELSE JoinSegs(SubSeq(segs, Len(root) + 1, Len(segs)))

\* CodeCombinerApp.relative_or_absolute
relative_or_absolute(p, script_dir) ==
  IF IsPrefix(script_dir, p.dir)
    THEN RelSegs(Append(p.dir, p.name), script_dir)
    ELSE as_posix(p)

\* Path.suffix.lower() of the file names of the model.
SuffixLower(n) ==
  CASE n = "foo.py" -> ".py"
    [] n = "x.py" -> ".py"
    [] n = "h.py" -> ".py"
    [] n = "B.PY" -> ".py"
    [] n = "__init__.py" -> ".py"
    [] n = "n.txt" -> ".txt"
    [] OTHER -> ""

allowed_extensions == {".py"}
excluded_filenames == {"__init__.py", "Codehelp.py", "analysis_depend.py"}
excluded_dirs == {"__pycache__", ".git", ".venv", "venv", ".idea", ".vscode"}

\* The filter of upload_files_replace, upload_files_add and
\* filter_and_scan_file_paths.
PassesFilter(p) ==
  SuffixLower(p.name) \in allowed_extensions /\ p.name \notin excluded_filenames

(***************************************************************************)
(* The file system of the model.                                           *)
(***************************************************************************)
P_foo == Path(<<"r">>, "foo.py")
P_x == Path(<<"r">>, "x.py")
P_init == Path(<<"r">>, "__init__.py")
P_bx == Path(<<"r", "b">>, "x.py")
P_txt == Path(<<"r", "b">>, "n.txt")
P_git == Path(<<"r", ".git">>, "h.py")
P_top == Path(<<"r", "(top-level)">>, "x.py")

\* A file directly in the root of the file system; the identifiers are
\* computed for it, and no specification lists it.
P_fsroot == Path(<<>>, "h.py")

\* The files in the order os.walk meets them (a directory before its
\* subdirectories).  The last one lies in a directory whose name is the label
\* the scan gives to the root; it is absent in Spec.
FsOrder == <<P_foo, P_x, P_init, P_bx, P_txt, P_git, P_top>>

FsPaths == {FsOrder[i] : i \in DOMAIN FsOrder}

\* The directories select_directory can be given.
Dirs == {<<"r">>, <<"r", "b">>}

NoPath == Path(<<>>, "")

Absent == [kind |-> "absent", text |-> <<>>]
Binary == [kind |-> "binary", text |-> <<>>]
TextFile(t) == [kind |-> "text", text |-> t]

\* Path.exists()
exists(d, p) == d[p].kind # "absent"

\* Path.read_text(encoding="utf-8") and open("r").readlines() succeed.
Readable(d, p) == d[p].kind = "text"

\* What a read of the file gives: Path.read_text and file.readlines() decode in
\* text mode.
read_text(d, p) == universal_newlines(d[p].text)

(***************************************************************************)
(* Identifier lines.                                                       *)
(***************************************************************************)
\* copy_file_code and paste_file_code: f"# {relative_path}"
file_identifier(p, script_dir) == <<"#", SP>> \o relative_or_absolute(p, script_dir)

\* combine_code: the directory of the file relative to the root.
relative_dir(p, script_dir) ==
  IF IsPrefix(script_dir, p.dir) THEN RelSegs(p.dir, script_dir) ELSE AbsPosix(p.dir)

\* combine_code: the identifier it injects.
combine_identifier(p, script_dir) ==
  IF relative_dir(p, script_dir) \in {<<>>, <<".">>, <<"(top-level)">>}
    THEN <<"#", SP, p.name>>
    ELSE <<"#", SP>> \o relative_dir(p, script_dir) \o <<"/", p.name>>

(***************************************************************************)
(* The file list.                                                          *)
(***************************************************************************)
Range(s) == {s[i] : i \in DOMAIN s}

Names(s) == {s[i].name : i \in DOMAIN s}

FilterPaths(s) == SelectSeq(s, PassesFilter)

RECURSIVE UniqueAcc(_, _, _)
UniqueAcc(s, seen, acc) ==
  IF s = <<>> THEN acc
  ELSE IF Head(s).name \in seen THEN UniqueAcc(Tail(s), seen, acc)
  ELSE UniqueAcc(Tail(s), seen \cup {Head(s).name}, Append(acc, Head(s)))

\* A faulty loop that keeps the last path of each file name.
RECURSIVE UniqueByNameLastWins(_)
UniqueByNameLastWins(s) ==
  IF s = <<>> THEN <<>>
  ELSE (IF \E j \in 2..Len(s) : s[j].name = s[1].name THEN <<>> ELSE <<s[1]>>)
       \o UniqueByNameLastWins(Tail(s))

\* The loop that keeps the first path of each file name.
UniqueByName(s) == UniqueAcc(s, {}, <<>>)

RECURSIVE AddLoop(_, _, _, _)
AddLoop(cands, names, added, skipped) ==
  IF cands = <<>> THEN [added |-> added, skipped |-> skipped]
  ELSE IF Head(cands).name \notin names
    THEN AddLoop(Tail(cands), names \cup {Head(cands).name},
                 Append(added, Head(cands)), skipped)
    ELSE AddLoop(Tail(cands), names, added, Append(skipped, Head(cands)))

\* A faulty add loop that never looks at the names already listed.
UploadAddLoopNoNameCheck(list, cands) == [added |-> cands, skipped |-> <<>>]

\* upload_files_add: the loop over the filtered paths.
UploadAddLoop(list, cands) == AddLoop(cands, Names(list), <<>>, <<>>)

\* add_selected_files_from_tab: the loop over the checked tab entries.
TabAddLoop(list, cands) == AddLoop(cands, Names(list), <<>>, <<>>)

\* A faulty check_file that forgets to record the path.
check_file_forgets(checked, p) == checked

\* check_file
check_file(checked, p) == checked \cup {p}

\* A faulty uncheck_file that leaves the path in the checked set.
uncheck_file_keeps(checked, p) == checked

\* uncheck_file
uncheck_file(checked, p) == checked \ {p}

\* A faulty display that shows every row checked.
display_filenames_checks_all(fps, checked) ==
  [i \in 1..Len(fps) |-> [file_path |-> fps[i], checked |-> TRUE]]

\* display_filenames: one checkbox per list entry, checked as the checked set says.
display_filenames(fps, checked) ==
  [i \in 1..Len(fps) |-> [file_path |-> fps[i], checked |-> fps[i] \in checked]]

\* A faulty removal that fills the gap with the last entry.
ListRemoveSwap(s, x) ==
  IF \A i \in DOMAIN s : s[i] # x THEN s
  ELSE LET k == CHOOSE i \in DOMAIN s : s[i] = x
       IN [i \in 1..(Len(s) - 1) |-> IF i = k THEN s[Len(s)] ELSE s[i]]

\* list.remove(x): the first occurrence goes.
RECURSIVE ListRemove(_, _)
ListRemove(s, x) ==
  IF s = <<>> THEN s
  ELSE IF Head(s) = x THEN Tail(s) ELSE <<Head(s)>> \o ListRemove(Tail(s), x)

(***************************************************************************)
(* The directory scan.                                                     *)
(***************************************************************************)
\* A faulty walk that descends into every directory.
WalkedEverywhere(p, script_dir, d) ==
  /\ exists(d, p)
  /\ IsPrefix(script_dir, p.dir)

\* os.walk(script_dir) reaches the file: it lies under the root and no
\* directory between the root and the file has an excluded name.
Walked(p, script_dir, d) ==
  /\ exists(d, p)
  /\ IsPrefix(script_dir, p.dir)
  /\ \A i \in (Len(script_dir) + 1)..Len(p.dir) : p.dir[i] \notin excluded_dirs

\* dir_rel of scan_and_display_directory_files
DirLabel(p, script_dir) ==
  IF RelSegs(p.dir, script_dir) = <<".">> THEN <<"(top-level)">>
  ELSE RelSegs(p.dir, script_dir)

Scanned(script_dir, d) ==
  {p \in FsPaths : Walked(p, script_dir, d) /\ PassesFilter(p)}

\* all_files_grouped, as build_directory_tabs keeps it in tab_file_checkboxes.
scan_directory(script_dir, d) ==
  [l \in {DirLabel(p, script_dir) : p \in Scanned(script_dir, d)} |->
     LET InGroup(p) == p \in Scanned(script_dir, d) /\ DirLabel(p, script_dir) = l
     IN SelectSeq(FsOrder, InGroup)]

(***************************************************************************)
(* The version history.                                                    *)
(***************************************************************************)
\* A faulty push that drops the newest snapshot (pop() for pop(0)).
PushVersionDropsNewest(stack, content) ==
  IF Len(Append(stack, content)) > HistoryLimit THEN stack
  ELSE Append(stack, content)

\* save_current_version: append, then drop the oldest beyond the limit.
PushVersion(stack, content) ==
  IF Len(Append(stack, content)) > HistoryLimit
    THEN Tail(Append(stack, content))
    ELSE Append(stack, content)

\* A faulty save that keeps one history for all files: the snapshot goes on
\* every stack.
save_current_version_shared(pv, d, p) ==
  IF Readable(d, p)
    THEN [q \in DOMAIN pv |-> PushVersion(pv[q], read_text(d, p))]
    ELSE pv

\* save_current_version: nothing is saved when the file cannot be read.
save_current_version(pv, d, p) ==
  IF Readable(d, p) THEN [pv EXCEPT ![p] = PushVersion(@, read_text(d, p))] ELSE pv

\* A faulty pop that takes the oldest snapshot's text (first in, first out).
PopOldestValue(stack) == stack[1]

\* revert_file_code: list.pop() gives the newest snapshot ...
PopValue(stack) == stack[Len(stack)]

\* ... and removes it.
PopRest(stack) == SubSeq(stack, 1, Len(stack) - 1)

(***************************************************************************)
(* Single-file copy, paste reconciliation, combine.                        *)
(***************************************************************************)
\* A faulty copy that puts the identifier first without looking at the text.
clipboard_content_always_prepends(t, ident) == ident \o <<NL>> \o t

\* A faulty copy that ends the text with the blank-line separator of combine.
clipboard_content_with_separator(t, ident) ==
  (IF readlines(t) # <<>>
     THEN IF strip(readlines(t)[1]) # ident THEN ident \o <<NL>> \o t ELSE t
     ELSE ident \o <<NL>>) \o <<NL, NL>>

\* copy_file_code: the text put on the clipboard for a file with text t.
clipboard_content(t, ident) ==
  IF readlines(t) # <<>>
    THEN IF strip(readlines(t)[1]) # ident THEN ident \o <<NL>> \o t ELSE t
    ELSE ident \o <<NL>>

\* paste_file_code: the file's first line, stripped, is the identifier.
ExistingHasIdentifier(dc, expected) ==
  /\ dc.kind = "text"
  /\ splitlines(universal_newlines(dc.text)) # <<>>
  /\ strip(splitlines(universal_newlines(dc.text))[1]) = expected

\* A faulty choice of content that rebuilds the clipboard from its lines in
\* every branch that adds the identifier.
content_to_write_joined(clip, dc, expected) ==
  IF strip(splitlines(clip)[1]) = expected THEN clip
  ELSE expected \o <<NL>> \o JoinNL(splitlines(clip))

\* paste_file_code: content_to_write for clipboard text clip (not empty), when
\* the file's text could be read where it had to be.
content_to_write(clip, dc, expected) ==
  IF strip(splitlines(clip)[1]) = expected THEN clip
  ELSE IF ExistingHasIdentifier(dc, expected)
    THEN strip(splitlines(universal_newlines(dc.text))[1])
         \o <<NL>> \o JoinNL(splitlines(clip))
    ELSE expected \o <<NL>> \o clip

\* paste_file_code: the read of the existing file raises (line 1054).
PasteReadFails(clip, dc, expected) ==
  /\ strip(splitlines(clip)[1]) # expected
  /\ dc.kind = "binary"

\* A faulty block that ends in a single newline.
combine_block_one_newline(t, ident) ==
  (IF readlines(t) # <<>>
     THEN IF strip(readlines(t)[1]) # strip(ident) THEN ident \o <<NL>> \o t ELSE t
     ELSE ident \o <<NL>>) \o <<NL>>

\* combine_code: the block of one file with text t.
combine_block(t, ident) ==
  (IF readlines(t) # <<>>
     THEN IF strip(readlines(t)[1]) # strip(ident) THEN ident \o <<NL>> \o t ELSE t
     ELSE ident \o <<NL>>) \o <<NL, NL>>

\* A faulty loop that gives up at the first file it cannot read.
RECURSIVE combine_files_stops(_, _, _)
combine_files_stops(files, d, script_dir) ==
  IF files = <<>> THEN <<>>
  ELSE IF Readable(d, Head(files))
    THEN combine_block(read_text(d, Head(files)),
                       combine_identifier(Head(files), script_dir))
         \o combine_files_stops(Tail(files), d, script_dir)
    ELSE <<>>

RECURSIVE combine_files(_, _, _)
\* combine_code: the loop over the selected files.
combine_files(files, d, script_dir) ==
  IF files = <<>> THEN <<>>
  ELSE (IF Readable(d, Head(files))
          THEN combine_block(read_text(d, Head(files)),
                             combine_identifier(Head(files), script_dir))
          ELSE <<>>)
       \o combine_files(Tail(files), d, script_dir)

RECURSIVE combine_warnings(_, _)
\* combine_code: the message boxes of the loop, in the order shown; one for
\* each selected file that is missing (lines 1210-1214) or cannot be decoded
\* or read (1246-1254), naming that file.
combine_warnings(files, d) ==
  IF files = <<>> THEN <<>>
  ELSE (IF ~exists(d, Head(files))
          THEN <<[title |-> "File Not Found", names |-> <<Head(files).name>>]>>
        ELSE IF ~Readable(d, Head(files))
          THEN <<[title |-> "Warning", names |-> <<Head(files).name>>]>>
        ELSE <<>>)
       \o combine_warnings(Tail(files), d)

\* selected_files: the paths whose checkbox is checked, in list order.
RECURSIVE selected_files(_)
selected_files(cbs) ==
  IF cbs = <<>> THEN <<>>
  ELSE (IF Head(cbs).checked THEN <<Head(cbs).file_path>> ELSE <<>>)
       \o selected_files(Tail(cbs))

RECURSIVE unselected_files(_)
unselected_files(cbs) ==
  IF cbs = <<>> THEN <<>>
  ELSE (IF Head(cbs).checked THEN <<>> ELSE <<Head(cbs).file_path>>)
       \o unselected_files(Tail(cbs))

\* combine_code
combine_code(cbs, d, script_dir) == combine_files(selected_files(cbs), d, script_dir)

(***************************************************************************)
(* The state.                                                              *)
(***************************************************************************)
VARIABLES
  file_paths,           \* self.file_paths: the ordered list
  checked_file_paths,   \* self.checked_file_paths
  checkboxes,           \* self.checkboxes: the rows shown, with their check marks
  settings_file_paths,  \* settings value "file_paths"
  selected_directory,   \* self.selected_directory
  tab_file_checkboxes,  \* self.tab_file_checkboxes: label -> scanned paths
  disk,                 \* the content of every file
  previous_versions,    \* self.previous_versions: path -> snapshots, newest last
  clipboard,            \* the text of the system clipboard
  last                  \* what the last operation was given and reported

vars == <<file_paths, checked_file_paths, checkboxes, settings_file_paths,
          selected_directory, tab_file_checkboxes, disk, previous_versions,
          clipboard, last>>

listVars == <<file_paths, checked_file_paths, checkboxes, settings_file_paths>>

\* The record of an operation: its name and target, what it was given, what
\* it reported ("ok", "warning", "error", ...), whether it pushed a snapshot,
\* whether it wrote the file, the text it produced, and whether its target was
\* checked, how many snapshots it had and what the file held when the
\* operation began.
Report(op, p, outcome, pushed, wrote, text, input, skipped) ==
  [op |-> op, path |-> p, outcome |-> outcome, pushed |-> pushed, wrote |-> wrote,
   text |-> text, input |-> input, skipped |-> skipped,
   was_checked |-> p \in checked_file_paths,
   hist_len |-> IF p \in FsPaths THEN Len(previous_versions[p]) ELSE 0,
   before |-> IF p \in FsPaths THEN disk[p] ELSE Absent]

\* The list as the settings keep it: [fp.as_posix() for fp in self.file_paths]
PosixList(fps) == [i \in 1..Len(fps) |-> as_posix(fps[i])]

RECURSIVE CheckAll(_, _)
\* check_file for every path added, in turn.
CheckAll(checked, added) ==
  IF added = <<>> THEN checked
  ELSE CheckAll(check_file(checked, Head(added)), Tail(added))

RECURSIVE UncheckAll(_, _)
UncheckAll(checked, fps) ==
  IF fps = <<>> THEN checked
  ELSE UncheckAll(uncheck_file(checked, Head(fps)), Tail(fps))

RowPaths(cbs) == [i \in 1..Len(cbs) |-> cbs[i].file_path]

(***************************************************************************)
(* Operations on the file list.                                            *)
(***************************************************************************)
\* upload_files_add, the dialog having returned the paths inp.
upload_files_add(inp) ==
  LET r == UploadAddLoop(file_paths, FilterPaths(inp))
      checked == CheckAll(checked_file_paths, r.added)
  IN /\ file_paths' = file_paths \o r.added
     /\ checked_file_paths' = checked
     /\ settings_file_paths' = PosixList(file_paths \o r.added)
     /\ checkboxes' = display_filenames(file_paths \o r.added, checked)
     /\ last' = Report("upload_add", NoPath, "ok", FALSE, FALSE, <<>>, inp, r.skipped)
     /\ UNCHANGED <<selected_directory, tab_file_checkboxes, disk,
                    previous_versions, clipboard>>

\* add_selected_files_from_tab, the entries sel of the tab being checked.
add_selected_files_from_tab(dir_key, sel) ==
  LET IsSel(p) == p \in sel
      cands == SelectSeq(tab_file_checkboxes[dir_key], IsSel)
      r == TabAddLoop(file_paths, cands)
      checked == CheckAll(checked_file_paths, r.added)
  IN /\ file_paths' = file_paths \o r.added
     /\ checked_file_paths' = checked
     /\ IF r.added # <<>>
          THEN /\ settings_file_paths' = PosixList(file_paths \o r.added)
               /\ checkboxes' = display_filenames(file_paths \o r.added, checked)
          ELSE UNCHANGED <<settings_file_paths, checkboxes>>
     /\ last' = Report("add_from_tab", NoPath,
                       IF cands = <<>> THEN "none_selected"
                       ELSE IF r.added = <<>> THEN "none_added" ELSE "ok",
                       FALSE, FALSE, <<>>, cands, <<>>)
     /\ UNCHANGED <<selected_directory, tab_file_checkboxes, disk,
                    previous_versions, clipboard>>

\* upload_files_replace, the dialog having returned the paths inp.
upload_files_replace(inp) ==
  LET unique_file_paths == UniqueByName(FilterPaths(inp))
  IN /\ file_paths' = unique_file_paths
     /\ checked_file_paths' = Range(unique_file_paths)
     /\ settings_file_paths' = PosixList(unique_file_paths)
     /\ checkboxes' = display_filenames(unique_file_paths, Range(unique_file_paths))
     /\ last' = Report("upload_replace", NoPath, "ok", FALSE, FALSE, <<>>, inp, <<>>)
     /\ UNCHANGED <<selected_directory, tab_file_checkboxes, disk,
                    previous_versions, clipboard>>

\* remove_file
remove_file(p) ==
  /\ IF p \in Range(file_paths)
       THEN /\ file_paths' = ListRemove(file_paths, p)
            /\ checked_file_paths' = uncheck_file(checked_file_paths, p)
            /\ settings_file_paths' = PosixList(ListRemove(file_paths, p))
            /\ checkboxes' = display_filenames(ListRemove(file_paths, p),
                                               uncheck_file(checked_file_paths, p))
       ELSE UNCHANGED listVars
  /\ last' = Report("remove", p, IF p \in Range(file_paths) THEN "ok" ELSE "none",
                    FALSE, FALSE, <<>>, file_paths, <<>>)
  /\ UNCHANGED <<selected_directory, tab_file_checkboxes, disk,
                 previous_versions, clipboard>>

\* checkbox_state_changed, the user having clicked the checkbox of row i.
checkbox_state_changed(i) ==
  /\ checkboxes' = [checkboxes EXCEPT ![i].checked = ~@]
  /\ checked_file_paths' =
       IF ~checkboxes[i].checked
         THEN check_file(checked_file_paths, checkboxes[i].file_path)
         ELSE uncheck_file(checked_file_paths, checkboxes[i].file_path)
  /\ last' = Report("toggle", checkboxes[i].file_path, "ok", FALSE, FALSE,
                    <<>>, <<>>, <<>>)
  /\ UNCHANGED <<file_paths, settings_file_paths, selected_directory,
                 tab_file_checkboxes, disk, previous_versions, clipboard>>

\* select_all_files
select_all_files ==
  /\ checkboxes' = [i \in 1..Len(checkboxes) |-> [checkboxes[i] EXCEPT !.checked = TRUE]]
  /\ checked_file_paths' = CheckAll(checked_file_paths, RowPaths(checkboxes))
  /\ last' = Report("select_all", NoPath, "ok", FALSE, FALSE, <<>>, <<>>, <<>>)
  /\ UNCHANGED <<file_paths, settings_file_paths, selected_directory,
                 tab_file_checkboxes, disk, previous_versions, clipboard>>

\* unselect_all_files
unselect_all_files ==
  /\ checkboxes' = [i \in 1..Len(checkboxes) |-> [checkboxes[i] EXCEPT !.checked = FALSE]]
  /\ checked_file_paths' = UncheckAll(checked_file_paths, RowPaths(checkboxes))
  /\ last' = Report("unselect_all", NoPath, "ok", FALSE, FALSE, <<>>, <<>>, <<>>)
  /\ UNCHANGED <<file_paths, settings_file_paths, selected_directory,
                 tab_file_checkboxes, disk, previous_versions, clipboard>>

\* A faulty order that puts the unchecked rows first.
unchecked_then_checked(cbs) == unselected_files(cbs) \o selected_files(cbs)

\* The new order of move_checked_files_to_head.
\* A faulty order that puts the checked files first, the last of them on top.
checked_reversed_then_unchecked(cbs) ==
  [i \in 1..Len(selected_files(cbs)) |->
     selected_files(cbs)[Len(selected_files(cbs)) + 1 - i]]
    \o unselected_files(cbs)

checked_then_unchecked(cbs) == selected_files(cbs) \o unselected_files(cbs)

\* A faulty move that reorders the list in memory and does not store it.
move_checked_files_to_head_unsaved ==
  /\ IF selected_files(checkboxes) # <<>>
       THEN /\ file_paths' = checked_then_unchecked(checkboxes)
            /\ checkboxes' = display_filenames(checked_then_unchecked(checkboxes),
                                               checked_file_paths)
            /\ UNCHANGED settings_file_paths
       ELSE UNCHANGED <<file_paths, settings_file_paths, checkboxes>>
  /\ last' = Report("move", NoPath,
                    IF selected_files(checkboxes) # <<>> THEN "ok" ELSE "none",
                    FALSE, FALSE, <<>>, file_paths, <<>>)
  /\ UNCHANGED <<checked_file_paths, selected_directory, tab_file_checkboxes,
                 disk, previous_versions, clipboard>>

\* move_checked_files_to_head
move_checked_files_to_head ==
  /\ IF selected_files(checkboxes) # <<>>
       THEN /\ file_paths' = checked_then_unchecked(checkboxes)
            /\ settings_file_paths' = PosixList(checked_then_unchecked(checkboxes))
            /\ checkboxes' = display_filenames(checked_then_unchecked(checkboxes),
                                               checked_file_paths)
       ELSE UNCHANGED <<file_paths, settings_file_paths, checkboxes>>
  /\ last' = Report("move", NoPath,
                    IF selected_files(checkboxes) # <<>> THEN "ok" ELSE "none",
                    FALSE, FALSE, <<>>, file_paths, <<>>)
  /\ UNCHANGED <<checked_file_paths, selected_directory, tab_file_checkboxes,
                 disk, previous_versions, clipboard>>

\* filter_and_scan_file_paths: the new list.
filtered_unique(fps) == UniqueByName(FilterPaths(fps))

\* filter_and_scan_file_paths under the directory dir.
filter_and_scan_file_paths(op, dir) ==
  /\ file_paths' = filtered_unique(file_paths)
  /\ settings_file_paths' = PosixList(filtered_unique(file_paths))
  /\ tab_file_checkboxes' = scan_directory(dir, disk)
  /\ checkboxes' = display_filenames(filtered_unique(file_paths), checked_file_paths)
  /\ last' = Report(op, NoPath, "ok", FALSE, FALSE, <<>>, <<>>, <<>>)
  /\ UNCHANGED <<checked_file_paths, disk, previous_versions, clipboard>>

\* reload_files
reload_files ==
  /\ filter_and_scan_file_paths("reload", selected_directory)
  /\ UNCHANGED selected_directory

\* select_directory, the dialog having returned chosen_dir.
select_directory(chosen_dir) ==
  /\ selected_directory' = chosen_dir
  /\ filter_and_scan_file_paths("select_directory", chosen_dir)

(***************************************************************************)
(* Copy, paste, revert, combine.                                           *)
(***************************************************************************)
\* copy_file_code
copy_file_code(p) ==
  /\ IF Readable(disk, p)
       THEN /\ clipboard' = clipboard_content(read_text(disk, p),
                                              file_identifier(p, selected_directory))
            /\ previous_versions' = save_current_version(previous_versions, disk, p)
            /\ last' = Report("copy", p, "ok", TRUE, FALSE,
                              clipboard_content(read_text(disk, p),
                                                file_identifier(p, selected_directory)),
                              <<>>, <<>>)
       ELSE /\ UNCHANGED <<clipboard, previous_versions>>
            /\ last' = Report("copy", p, "error", FALSE, FALSE, <<>>, <<>>, <<>>)
  /\ UNCHANGED <<listVars, selected_directory, tab_file_checkboxes, disk>>

\* Path.write_text: the file holds the text afterwards, or the write raises
\* and the file is as it was.
write_text(d, p, content, write_ok) ==
  IF write_ok THEN [d EXCEPT ![p] = TextFile(content)] ELSE d

\* A faulty paste without the test for an empty clipboard: it snapshots the
\* file and writes whatever the clipboard holds.
paste_file_code_unguarded(p, write_ok) ==
  /\ previous_versions' = save_current_version(previous_versions, disk, p)
  /\ disk' = write_text(disk, p, clipboard, write_ok)
  /\ last' = Report("paste", p, IF write_ok THEN "ok" ELSE "error",
                    Readable(disk, p), write_ok, clipboard, <<>>, <<>>)
  /\ UNCHANGED <<listVars, selected_directory, tab_file_checkboxes, clipboard>>

\* paste_file_code; write_ok: whether write_text succeeds.
paste_file_code(p, write_ok) ==
  /\ IF clipboard = <<>>
       THEN /\ UNCHANGED <<previous_versions, disk>>
            /\ last' = Report("paste", p, "warning", FALSE, FALSE, <<>>, <<>>, <<>>)
       ELSE IF PasteReadFails(clipboard, disk[p], file_identifier(p, selected_directory))
       THEN /\ UNCHANGED <<previous_versions, disk>>
            /\ last' = Report("paste", p, "error", FALSE, FALSE, <<>>, <<>>, <<>>)
       ELSE /\ previous_versions' = save_current_version(previous_versions, disk, p)
            /\ disk' = write_text(disk, p,
                                  content_to_write(clipboard, disk[p],
                                                   file_identifier(p, selected_directory)),
                                  write_ok)
            /\ last' = Report("paste", p, IF write_ok THEN "ok" ELSE "error",
                              Readable(disk, p), write_ok,
                              content_to_write(clipboard, disk[p],
                                               file_identifier(p, selected_directory)),
                              <<>>, <<>>)
  /\ UNCHANGED <<listVars, selected_directory, tab_file_checkboxes, clipboard>>

\* revert_file_code; write_ok: whether write_text succeeds.
revert_file_code(p, write_ok) ==
  /\ IF previous_versions[p] # <<>>
       THEN /\ previous_versions' = [previous_versions EXCEPT ![p] = PopRest(@)]
            /\ disk' = write_text(disk, p, PopValue(previous_versions[p]), write_ok)
            /\ last' = Report("revert", p, IF write_ok THEN "ok" ELSE "error",
                              FALSE, write_ok, PopValue(previous_versions[p]),
                              <<>>, <<>>)
       ELSE /\ UNCHANGED <<previous_versions, disk>>
            /\ last' = Report("revert", p, "warning", FALSE, FALSE, <<>>, <<>>, <<>>)
  /\ UNCHANGED <<listVars, selected_directory, tab_file_checkboxes, clipboard>>

\* A faulty copy_combined_code that snapshots every selected readable file, as
\* copy_file_code does for its one file.
copy_combined_code_saving ==
  /\ clipboard' = combine_code(checkboxes, disk, selected_directory)
  /\ previous_versions' =
       [p \in FsPaths |->
          IF p \in Range(selected_files(checkboxes)) /\ Readable(disk, p)
            THEN PushVersion(previous_versions[p], read_text(disk, p))
            ELSE previous_versions[p]]
  /\ last' = Report("combine", NoPath, "ok", FALSE, FALSE,
                    combine_code(checkboxes, disk, selected_directory), <<>>,
                    combine_warnings(selected_files(checkboxes), disk))
  /\ UNCHANGED <<listVars, selected_directory, tab_file_checkboxes, disk>>

\* copy_combined_code
copy_combined_code ==
  /\ IF strip(combine_code(checkboxes, disk, selected_directory)) # <<>>
       THEN /\ clipboard' = combine_code(checkboxes, disk, selected_directory)
            /\ last' = Report("combine", NoPath, "ok", FALSE, FALSE,
                              combine_code(checkboxes, disk, selected_directory),
                              <<>>,
                              combine_warnings(selected_files(checkboxes), disk))
       ELSE /\ UNCHANGED clipboard
            /\ last' = Report("combine", NoPath, "warning", FALSE, FALSE,
                              combine_code(checkboxes, disk, selected_directory),
                              <<>>,
                              combine_warnings(selected_files(checkboxes), disk))
  /\ UNCHANGED <<listVars, selected_directory, tab_file_checkboxes, disk,
                 previous_versions>>

\* The user copies the text t in another application.
external_copy(t) ==
  /\ clipboard' = t
  /\ last' = Report("external_copy", NoPath, "ok", FALSE, FALSE, t, <<>>, <<>>)
  /\ UNCHANGED <<listVars, selected_directory, tab_file_checkboxes, disk,
                 previous_versions>>

(***************************************************************************)
(* Inputs.                                                                 *)
(***************************************************************************)
\* The sequences of at most n elements of S.
SeqsUpTo(S, n) == UNION {[1..k -> S] : k \in 0..n}

\* What the settings can hold at start-up.
StoredLists == SeqsUpTo(FsPaths \ {P_top}, MaxStored)

\* What the file dialog can return: files, each once (ExistingFiles: the
\* operations take only those that exist).
UploadInputs ==
  {s \in SeqsUpTo(FsPaths, MaxUpload) :
     /\ s # <<>>
     /\ \A i, j \in DOMAIN s : i # j => s[i] # s[j]}

AllExist(s) == \A i \in DOMAIN s : exists(disk, s[i])

\* The texts the user copies elsewhere in SpecHistory: nothing, and two texts
\* that start with foo.py's identifier.
HistoryTexts ==
  {<<>>, <<"#", SP, "foo.py", NL, "z">>, <<"#", SP, "foo.py", NL, "w">>}

DefaultText == <<"x", NL>>

\* The pieces external texts are made of: line ends, blanks, a body word, and
\* the identifier of foo.py under the root /r.
Pieces == {<<NL>>, <<FF>>, <<SP>>, <<"x">>, <<"#", SP, "foo.py">>}

PieceTexts(n) == {Concat(s) : s \in SeqsUpTo(Pieces, n)}

\* __init__: the state after construction, the settings holding stored.
Constructed(stored, dir, d, clip) ==
  /\ file_paths = filtered_unique(stored)
  /\ checked_file_paths = {}
  /\ checkboxes = display_filenames(filtered_unique(stored), {})
  /\ settings_file_paths = PosixList(filtered_unique(stored))
  /\ selected_directory = dir
  /\ tab_file_checkboxes = scan_directory(dir, d)
  /\ disk = d
  /\ previous_versions = [p \in FsPaths |-> <<>>]
  /\ clipboard = clip
  /\ last = Report("init", NoPath, "ok", FALSE, FALSE, <<>>, stored, <<>>)

(***************************************************************************)
(* Spec: the file list and its operations.                                 *)
(***************************************************************************)
Init ==
  \E stored \in StoredLists, dir \in Dirs :
    Constructed(stored, dir,
                [p \in FsPaths |-> IF p = P_top THEN Absent ELSE TextFile(DefaultText)],
                <<>>)

Next ==
  \/ \E inp \in UploadInputs : (AllExist(inp) /\ upload_files_add(inp))
  \/ \E inp \in UploadInputs : (AllExist(inp) /\ upload_files_replace(inp))
  \/ \E k \in DOMAIN tab_file_checkboxes :
       \E sel \in SUBSET Range(tab_file_checkboxes[k]) :
         add_selected_files_from_tab(k, sel)
  \/ \E p \in FsPaths : remove_file(p)
  \/ \E i \in DOMAIN checkboxes : checkbox_state_changed(i)
  \/ select_all_files
  \/ unselect_all_files
  \/ move_checked_files_to_head
  \/ reload_files
  \/ \E dir \in Dirs : select_directory(dir)

Spec == Init /\ [][Next]_vars

(***************************************************************************)
(* SpecHistory: copy, paste, revert and combine on a list of one file,     *)
(* with the list operations that add nothing.                              *)
(***************************************************************************)
\* foo.py as SpecHistory finds it: its identifier line and a body word.
HistoryText == <<"#", SP, "foo.py", NL, "x">>

InitHistory ==
  \E c \in {TextFile(HistoryText), Absent, Binary} :
    Constructed(<<P_foo>>, <<"r">>,
                [p \in FsPaths |-> IF p = P_foo THEN c ELSE TextFile(DefaultText)],
                <<>>)

\* The bound on the texts of SpecHistory.
HistoryBounded ==
  /\ Len(clipboard) <= MaxClipLen
  /\ \A p \in FsPaths : Len(disk[p].text) <= MaxDiskLen

NextHistory ==
  \/ \E i \in DOMAIN checkboxes :
       (copy_file_code(checkboxes[i].file_path) /\ HistoryBounded')
  \/ \E i \in DOMAIN checkboxes, w \in BOOLEAN :
       (paste_file_code(checkboxes[i].file_path, w) /\ HistoryBounded')
  \/ \E i \in DOMAIN checkboxes, w \in BOOLEAN :
       revert_file_code(checkboxes[i].file_path, w)
  \/ (copy_combined_code /\ HistoryBounded')
  \/ \E t \in HistoryTexts : external_copy(t)
  \/ \E p \in FsPaths : remove_file(p)
  \/ \E i \in DOMAIN checkboxes : checkbox_state_changed(i)
  \/ move_checked_files_to_head
  \/ reload_files

SpecHistory == InitHistory /\ [][NextHistory]_vars

(***************************************************************************)
(* SpecText: copy, paste and revert of one file, for every short text on   *)
(* the disk and on the clipboard.                                          *)
(***************************************************************************)
InitText ==
  \E c \in {Absent, Binary} \cup {TextFile(t) : t \in PieceTexts(MaxDiskPieces)},
     clip \in PieceTexts(MaxClipPieces) :
    Constructed(<<P_foo>>, <<"r">>,
                [p \in FsPaths |-> IF p = P_foo THEN c ELSE TextFile(DefaultText)],
                clip)

\* The bound on the operations of SpecText: each copy or paste of a readable
\* file leaves a snapshot.
TextBounded == Len(previous_versions[P_foo]) <= MaxTextOps

NextText ==
  \/ (copy_file_code(P_foo) /\ TextBounded')
  \/ \E w \in BOOLEAN : (paste_file_code(P_foo, w) /\ TextBounded')
  \/ \E w \in BOOLEAN : revert_file_code(P_foo, w)

SpecText == InitText /\ [][NextText]_vars

(***************************************************************************)
(* SpecCombine: the combined-code output of a list of three files in two   *)
(* directories and outside the root, readable or not, under the operations *)
(* that select and reorder entries and change the root.                    *)
(***************************************************************************)
\* foo.py as SpecCombine finds it: without a header, with the header it has
\* under the root /r, or empty.
CombineFooTexts == {DefaultText, <<"#", SP, "foo.py", NL, "x", NL>>, <<>>}

\* .git/h.py, listed by an upload, with the header it has under the root /r.
CombineGitText == <<"#", SP, ".git", "/", "h.py", NL, "x">>

\* b/x.py and .git/h.py as SpecCombine finds them: both readable, b/x.py
\* missing or not decodable, or b/x.py not decodable and .git/h.py missing.
CombineOthers ==
  {<<c, TextFile(CombineGitText)>> : c \in {TextFile(DefaultText), Absent, Binary}}
    \cup {<<Binary, Absent>>}

InitCombine ==
  \E dir \in Dirs, t \in CombineFooTexts, o \in CombineOthers :
    Constructed(<<P_foo, P_bx, P_git>>, dir,
                [p \in FsPaths |->
                   IF p = P_foo THEN TextFile(t)
                   ELSE IF p = P_bx THEN o[1]
                   ELSE IF p = P_git THEN o[2]
                   ELSE TextFile(DefaultText)],
                <<>>)

NextCombine ==
  \/ copy_combined_code
  \/ \E i \in DOMAIN checkboxes : checkbox_state_changed(i)
  \/ move_checked_files_to_head
  \/ \E d \in Dirs : select_directory(d)

SpecCombine == InitCombine /\ [][NextCombine]_vars

(***************************************************************************)
(* SpecScan: the scan of a root that has a subdirectory named              *)
(* "(top-level)", with the operations that scan, that take files from the  *)
(* groups, and that select, reorder and remove entries of the list.        *)
(***************************************************************************)
InitScan ==
  \E stored \in {<<>>, <<P_foo>>, <<P_git>>}, dir \in Dirs :
    Constructed(stored, dir, [p \in FsPaths |-> TextFile(DefaultText)], <<>>)

NextScan ==
  \/ \E dir \in Dirs : select_directory(dir)
  \/ reload_files
  \/ \E k \in DOMAIN tab_file_checkboxes :
       \E sel \in SUBSET Range(tab_file_checkboxes[k]) :
         add_selected_files_from_tab(k, sel)
  \/ \E p \in FsPaths : remove_file(p)
  \/ \E i \in DOMAIN checkboxes : checkbox_state_changed(i)
  \/ select_all_files
  \/ unselect_all_files
  \/ move_checked_files_to_head

SpecScan == InitScan /\ [][NextScan]_vars

(***************************************************************************)
(* SpecIdentifier: copy and combine of three files: one in the root or     *)
(* outside it, one in a subdirectory or outside the root, one in a         *)
(* directory named "(top-level)".                                          *)
(***************************************************************************)
InitIdentifier ==
  \E dir \in Dirs :
    Constructed(<<P_foo, P_git, P_top>>, dir,
                [p \in FsPaths |-> TextFile(DefaultText)], <<>>)

\* The bound on the operations of SpecIdentifier: each copy leaves a snapshot.
IdentifierBounded ==
  Len(previous_versions[P_foo]) + Len(previous_versions[P_git])
    + Len(previous_versions[P_top]) <= MaxTextOps

NextIdentifier ==
  \/ \E i \in DOMAIN checkboxes :
       (copy_file_code(checkboxes[i].file_path) /\ IdentifierBounded')
  \/ copy_combined_code
  \/ \E i \in DOMAIN checkboxes : checkbox_state_changed(i)
  \/ \E d \in Dirs : select_directory(d)

SpecIdentifier == InitIdentifier /\ [][NextIdentifier]_vars

(***************************************************************************)
(* SpecRevert: paste, revert and copy of one file whose lines end in "\n"  *)
(* or in "\r\n".                                                           *)
(***************************************************************************)
\* foo.py as SpecRevert finds it: a line ended by "\n", the same line ended by
\* "\r\n", the identifier line and a body, or nothing.
RevertTexts == {DefaultText, <<"x", CR, NL>>, HistoryText, <<>>}

\* The clipboard as SpecRevert finds it: a text without the identifier of
\* foo.py, and one with it.
RevertClips == {<<"y">>, <<"#", SP, "foo.py", NL, "y", NL>>}

InitRevert ==
  \E t \in RevertTexts, clip \in RevertClips :
    Constructed(<<P_foo>>, <<"r">>,
                [p \in FsPaths |-> IF p = P_foo THEN TextFile(t)
                                   ELSE TextFile(DefaultText)],
                clip)

NextRevert ==
  \/ (copy_file_code(P_foo) /\ TextBounded')
  \/ \E w \in BOOLEAN : (paste_file_code(P_foo, w) /\ TextBounded')
  \/ \E w \in BOOLEAN : revert_file_code(P_foo, w)
  \/ \E t \in RevertClips : external_copy(t)

SpecRevert == InitRevert /\ [][NextRevert]_vars

(***************************************************************************)
(* Properties of the file list (checked under Spec).                       *)
(***************************************************************************)
\* C1: at every moment after start-up no two entries of the file list have
\* the same filename, whatever their directories.
C1_NoDuplicateFilenames ==
  \A i, j \in DOMAIN file_paths :
    i # j => file_paths[i].name # file_paths[j].name

\* C1's case: an add has just been refused a path whose filename is listed
\* under another directory.
C1_Witness ==
  /\ last.op = "upload_add"
  /\ \E k \in DOMAIN last.skipped, i \in DOMAIN file_paths :
       /\ last.skipped[k].name = file_paths[i].name
       /\ last.skipped[k].dir # file_paths[i].dir

\* C2: every checked path is an entry of the file list.
C2_CheckedSubsetOfList == checked_file_paths \subseteq Range(file_paths)

\* C2's case: a path that was checked has just been removed, and another
\* entry is still checked.
C2_Witness ==
  /\ last.op = "remove"
  /\ last.outcome = "ok"
  /\ last.was_checked
  /\ last.path \notin Range(file_paths)
  /\ checked_file_paths # {}

\* The candidates an add worked on: upload-add filters the dialog's paths,
\* add-from-tab takes the checked entries of the tab.
AddCandidates(r) == IF r.op = "upload_add" THEN FilterPaths(r.input) ELSE r.input

\* Candidate i brings a filename that neither the list nor an earlier
\* candidate of the same call has.
IsNewName(cands, list, i) ==
  /\ cands[i].name \notin Names(list)
  /\ \A j \in 1..(i - 1) : cands[j].name # cands[i].name

\* The candidates that bring a new name (keepNew) or collide (~keepNew), in
\* their order.
RECURSIVE PickFrom(_, _, _, _)
PickFrom(cands, list, i, keepNew) ==
  IF i > Len(cands) THEN <<>>
  ELSE (IF IsNewName(cands, list, i) = keepNew THEN <<cands[i]>> ELSE <<>>)
       \o PickFrom(cands, list, i + 1, keepNew)

\* What both add operations do to the list and the checked set: the new names
\* are appended in input order and checked, everything else stays as it was.
AddEffect ==
  LET cands == AddCandidates(last')
  IN /\ file_paths' = file_paths \o PickFrom(cands, file_paths, 1, TRUE)
     /\ checked_file_paths' =
          checked_file_paths \cup Range(PickFrom(cands, file_paths, 1, TRUE))

\* C10 as the specification states it: an add appends exactly the paths with
\* a new filename, in input order and checked, and every colliding path is
\* reported as skipped (by name, or by the notice that nothing was added)
\* while the list keeps its entries; upload-add and add-from-tab alike.
C10_SkippedReportedByBoth ==
  [][last'.op \in {"upload_add", "add_from_tab"} =>
       /\ AddEffect
       /\ \/ last'.skipped = PickFrom(AddCandidates(last'), file_paths, 1, FALSE)
          \/ last'.outcome = "none_added"]_vars

\* C10 as the code has it: both operations append exactly the paths with a
\* new filename, in input order and checked, and leave the existing entries
\* and their checked state alone; upload-add reports every colliding path as
\* skipped, add-from-tab reports none and only says so when nothing was added.
C10_AddAppendsNewNames ==
  [][last'.op \in {"upload_add", "add_from_tab"} =>
       /\ AddEffect
       /\ last'.op = "upload_add" =>
            last'.skipped = PickFrom(AddCandidates(last'), file_paths, 1, FALSE)
       /\ last'.op = "add_from_tab" =>
            /\ last'.skipped = <<>>
            /\ last'.outcome = "none_added" <=>
                 /\ AddCandidates(last') # <<>>
                 /\ PickFrom(AddCandidates(last'), file_paths, 1, TRUE) = <<>>]_vars

\* C10's case: one upload-add brought two paths with the same new filename;
\* the first is listed and checked, the second was skipped.
C10_Witness ==
  /\ last.op = "upload_add"
  /\ \E i, j \in DOMAIN last.input :
       /\ i < j
       /\ last.input[i].name = last.input[j].name
       /\ last.input[i] \in Range(file_paths)
       /\ last.input[i] \in checked_file_paths
       /\ last.input[j] \in Range(last.skipped)
       /\ last.input[j] \notin Range(file_paths)

\* The case C10's statement gets wrong: add-from-tab added one path and
\* dropped a colliding one without any report.
C10_TabCollisionUnreported ==
  /\ last.op = "add_from_tab"
  /\ last.outcome = "ok"
  /\ last.skipped = <<>>
  /\ \E i \in DOMAIN last.input : last.input[i] \notin Range(file_paths)

(***************************************************************************)
(* Properties of the version history (checked under SpecHistory).          *)
(***************************************************************************)
\* C3: a paste writes the file only after a snapshot of its content before
\* the paste was pushed; when that content cannot be read (file absent or
\* undecodable) nothing is written.
C3_PasteWritesOnlyAfterSnapshot ==
  (last.op = "paste" /\ last.wrote) => last.pushed

\* This step pushed a snapshot for p: the stack changed without shrinking (a
\* push onto a full stack keeps its length).
SnapshotPushed(p) ==
  /\ previous_versions'[p] # previous_versions[p]
  /\ Len(previous_versions'[p]) >= Len(previous_versions[p])

C8_HistoryBoundedOldestEvicted ==
  [][\A p \in FsPaths :
       /\ Len(previous_versions'[p]) <= 5
       /\ (last'.pushed /\ last'.path = p) =>
            IF Len(previous_versions[p]) = 5
              THEN previous_versions'[p] =
                     SubSeq(previous_versions[p], 2, 5) \o <<disk[p].text>>
              ELSE previous_versions'[p] =
                     previous_versions[p] \o <<disk[p].text>>]_vars

\* C8's case: a snapshot has just been pushed onto a full stack, and the
\* stack holds different texts.
C8_Witness ==
  /\ last.pushed
  /\ last.hist_len = 5
  /\ Len(previous_versions[last.path]) = 5
  /\ previous_versions[last.path][1] # previous_versions[last.path][5]
  /\ previous_versions[last.path][4] # previous_versions[last.path][5]

\* C9: a revert on a non-empty stack returns the newest snapshot, removes
\* exactly that one, and writes it to the file; a revert on an empty stack
\* signals that nothing is available and writes nothing.  Reverts in a row
\* therefore give the snapshots newest first, and the one after the last
\* snapshot finds nothing.
C9_RevertNewestFirst ==
  [][last'.op = "revert" =>
       LET p == last'.path
           n == Len(previous_versions[p])
       IN IF n > 0
            THEN /\ last'.text = previous_versions[p][n]
                 /\ previous_versions'[p] = SubSeq(previous_versions[p], 1, n - 1)
                 /\ last'.wrote => disk'[p] = TextFile(previous_versions[p][n])
                 /\ ~last'.wrote => disk'[p] = disk[p]
            ELSE /\ last'.outcome = "warning"
                 /\ ~last'.wrote
                 /\ disk' = disk
                 /\ previous_versions' = previous_versions]_vars

\* C9's case: a revert has just written the last of several snapshots it was
\* given newest first, a text different from the one the file held at the
\* start, and the stack is empty for the next revert.
C9_Witness ==
  /\ last.op = "revert"
  /\ last.wrote
  /\ last.hist_len = 1
  /\ previous_versions[last.path] = <<>>
  /\ disk[last.path] = TextFile(last.text)
  /\ last.text # HistoryText

(***************************************************************************)
(* Properties of copy and paste on one file (checked under SpecText).      *)
(***************************************************************************)
\* The text has no form feed, so that every reading of it agrees on its lines.
PlainText(t) == \A i \in DOMAIN t : t[i] # FF

\* C5: when the clipboard text T is not empty, its first line is not the
\* identifier, and the file exists with the identifier as its first line, a
\* paste writes the identifier line followed by T, T's final newline
\* included.
C5_PasteKeepsClipboardBody ==
  [][(/\ last'.op = "paste"
      /\ last'.wrote
      /\ clipboard # <<>>
      /\ PlainText(clipboard)
      /\ disk[last'.path].kind = "text"
      /\ PlainText(disk[last'.path].text)
      /\ strip(splitlines(clipboard)[1])
           # file_identifier(last'.path, selected_directory)
      /\ splitlines(disk[last'.path].text) # <<>>
      /\ strip(splitlines(disk[last'.path].text)[1])
           = file_identifier(last'.path, selected_directory))
     => disk'[last'.path] =
          TextFile(file_identifier(last'.path, selected_directory)
                   \o <<NL>> \o clipboard)]_vars

\* The file's first line, read as copy_file_code reads it, is its identifier.
StartsWithIdentifier(t, ident) ==
  /\ readlines(t) # <<>>
  /\ strip(readlines(t)[1]) = ident

\* C6: pasting the unmodified output of a single-file copy back into the same
\* file writes exactly the copied text; and when the file's first line
\* already was its identifier, the file's content after the paste is its
\* content before the copy.
C6_CopyPasteRoundTrip ==
  [][(/\ last.op = "copy"
      /\ last.outcome = "ok"
      /\ last'.op = "paste"
      /\ last'.path = last.path
      /\ last'.wrote)
     => /\ disk'[last'.path] = TextFile(clipboard)
        /\ StartsWithIdentifier(disk[last'.path].text,
                                file_identifier(last'.path, selected_directory))
             => disk'[last'.path] = disk[last'.path]]_vars

\* The number of identifier lines at the head of the lines.
RECURSIVE LeadingIdentifierLines(_, _)
LeadingIdentifierLines(lines, ident) ==
  IF lines = <<>> THEN 0
  ELSE IF strip(Head(lines)) = ident
    THEN 1 + LeadingIdentifierLines(Tail(lines), ident)
    ELSE 0

\* C7: after every successful paste the first line of the written content is
\* the file's identifier, and a copy followed by a paste on a file with at
\* most one leading identifier line never leaves it with more than one.
C7_HeadersDoNotAccumulate ==
  [][(last'.op = "paste" /\ last'.wrote) =>
       LET p == last'.path
           ident == file_identifier(p, selected_directory)
       IN /\ strip(splitlines(disk'[p].text)[1]) = ident
          /\ (/\ last.op = "copy"
              /\ last.outcome = "ok"
              /\ last.path = p
              /\ LeadingIdentifierLines(readlines(disk[p].text), ident) <= 1)
             => LeadingIdentifierLines(readlines(disk'[p].text), ident) <= 1]_vars

(***************************************************************************)
(* Further properties of the list operations (C11, C12 and C14 checked     *)
(* under SpecScan, C13 under Spec).                                        *)
(***************************************************************************)
\* The position of x in the duplicate-free sequence s (0 when absent).
PositionIn(s, x) ==
  IF \E i \in DOMAIN s : s[i] = x THEN CHOOSE i \in DOMAIN s : s[i] = x ELSE 0

\* C11: move-checked-to-top is a stable partition: afterwards every checked
\* entry precedes every unchecked one, two entries of the same part keep
\* their relative order, the entries and the checked set are the same, and a
\* second move right after the first leaves the list as it is.
C11_MoveIsStablePartition ==
  [][last'.op = "move" =>
       /\ checked_file_paths' = checked_file_paths
       /\ Len(file_paths') = Len(file_paths)
       /\ Range(file_paths') = Range(file_paths)
       /\ \A i, j \in DOMAIN file_paths' :
            (i < j /\ file_paths'[j] \in checked_file_paths)
              => file_paths'[i] \in checked_file_paths
       /\ \A a, b \in Range(file_paths) :
            (/\ (a \in checked_file_paths) = (b \in checked_file_paths)
             /\ PositionIn(file_paths, a) < PositionIn(file_paths, b))
              => PositionIn(file_paths', a) < PositionIn(file_paths', b)
       /\ last.op = "move" => file_paths' = file_paths]_vars

\* C11's case: a move has just reordered a list of three, bringing two
\* checked entries over an unchecked one that was first.
C11_Witness ==
  /\ last.op = "move"
  /\ last.outcome = "ok"
  /\ Len(file_paths) = 3
  /\ last.input # file_paths
  /\ last.input[1] \notin checked_file_paths
  /\ file_paths[3] = last.input[1]
  /\ Cardinality(checked_file_paths) = 2

\* C12: remove deletes the path from the list and from the checked set and
\* keeps the order of the other entries; removing a path that is not listed
\* changes neither the list, the checked set nor the persisted list, so a
\* second remove of the same path changes nothing.
C12_RemoveDeletesAndIsIdempotent ==
  [][last'.op = "remove" =>
       LET p == last'.path
       IN /\ Range(file_paths') = Range(file_paths) \ {p}
          /\ Len(file_paths') = Cardinality(Range(file_paths) \ {p})
          /\ checked_file_paths' = checked_file_paths \ {p}
          /\ \A a, b \in Range(file_paths') :
               PositionIn(file_paths, a) < PositionIn(file_paths, b)
                 => PositionIn(file_paths', a) < PositionIn(file_paths', b)
          /\ (p \notin Range(file_paths) \/ (last.op = "remove" /\ last.path = p))
               => /\ file_paths' = file_paths
                  /\ checked_file_paths' = checked_file_paths
                  /\ settings_file_paths' = settings_file_paths
                  /\ last'.outcome = "none"]_vars

\* C12's case: the middle entry of a list of three, checked, has just been
\* removed, and the two others are left in their order.
C12_Witness ==
  /\ last.op = "remove"
  /\ last.outcome = "ok"
  /\ Len(last.input) = 3
  /\ last.input[2] = last.path
  /\ last.was_checked
  /\ file_paths = <<last.input[1], last.input[3]>>
  /\ last.path \notin checked_file_paths

\* Path i of the input passes the filter and no earlier path of the input
\* has its filename.
FirstOfItsName(inp, i) ==
  /\ PassesFilter(inp[i])
  /\ \A j \in 1..(i - 1) : inp[j].name # inp[i].name

\* The paths of the input from position i on that are the first of their name.
RECURSIVE FirstsFrom(_, _)
FirstsFrom(inp, i) ==
  IF i > Len(inp) THEN <<>>
  ELSE (IF FirstOfItsName(inp, i) THEN <<inp[i]>> ELSE <<>>) \o FirstsFrom(inp, i + 1)

\* C13: upload-replace with a non-empty selection makes the list the input
\* paths that pass the filter, one per filename with the first occurrence
\* winning, in input order, whatever the list held before, and makes the
\* checked set exactly the entries of the new list.
C13_ReplaceSetsListAndChecksAll ==
  [][last'.op = "upload_replace" =>
       /\ file_paths' = FirstsFrom(last'.input, 1)
       /\ checked_file_paths' = Range(file_paths')]_vars

\* C13's case: the selection held x.py from two directories; the list is the
\* first of them alone, checked and persisted.
C13_Witness ==
  /\ last.op = "upload_replace"
  /\ Len(last.input) = 2
  /\ last.input[1].name = last.input[2].name
  /\ file_paths = <<last.input[1]>>
  /\ checked_file_paths = {last.input[1]}
  /\ settings_file_paths = <<as_posix(last.input[1])>>

\* C14: a reload or a change of directory leaves the checked state of every
\* path that is still listed as it was: checked stays checked and unchecked
\* stays unchecked, in the checked set and on the path's row.
C14_ScanFilterKeepsChecked ==
  [][last'.op \in {"reload", "select_directory"} =>
       /\ \A p \in Range(file_paths') :
            (p \in checked_file_paths') = (p \in checked_file_paths)
       /\ \A i \in DOMAIN checkboxes', j \in DOMAIN checkboxes :
            checkboxes'[i].file_path = checkboxes[j].file_path
              => checkboxes'[i].checked = checkboxes[j].checked
       /\ \A i \in DOMAIN checkboxes' :
            checkboxes'[i].checked
              = (checkboxes'[i].file_path \in checked_file_paths')]_vars

\* C14's case: the directory has just been changed while the list held a
\* checked and an unchecked entry.
C14_Witness ==
  /\ last.op = "select_directory"
  /\ \E i, j \in DOMAIN checkboxes :
       /\ checkboxes[i].checked
       /\ ~checkboxes[j].checked
       /\ checkboxes[i].file_path \in checked_file_paths
       /\ checkboxes[j].file_path \notin checked_file_paths

(***************************************************************************)
(* Further properties of paste and combine.                                *)
(***************************************************************************)
\* C15: a paste with an empty clipboard writes no file, pushes no snapshot
\* and leaves the list and the checked set alone; it only reports a warning.
C15_EmptyClipboardPasteDoesNothing ==
  [][(last'.op = "paste" /\ clipboard = <<>>) =>
       /\ disk' = disk
       /\ previous_versions' = previous_versions
       /\ file_paths' = file_paths
       /\ checked_file_paths' = checked_file_paths
       /\ settings_file_paths' = settings_file_paths
       /\ clipboard' = clipboard
       /\ last'.outcome = "warning"
       /\ ~last'.wrote
       /\ ~last'.pushed]_vars

\* C15's case: a paste has just met an empty clipboard on a readable file
\* that has snapshots from earlier operations.
C15_Witness ==
  /\ last.op = "paste"
  /\ last.outcome = "warning"
  /\ clipboard = <<>>
  /\ disk[last.path].kind = "text"
  /\ previous_versions[last.path] # <<>>

\* The target of a paste is absent, is empty, or has a first line (as paste
\* splits its text) that is not the identifier.
LacksIdentifier(dc, ident) ==
  \/ dc.kind = "absent"
  \/ /\ dc.kind = "text"
     /\ \/ splitlines(dc.text) = <<>>
        \/ strip(splitlines(dc.text)[1]) # ident

\* C16: when the first line of the clipboard is not the identifier and the
\* file is absent, is empty or has another first line, the content chosen for
\* writing is the identifier, a newline and the clipboard text as it is.
C16_PastePrependsIdentifierToRawClipboard ==
  [][(/\ last'.op = "paste"
      /\ clipboard # <<>>
      /\ strip(splitlines(clipboard)[1])
           # file_identifier(last'.path, selected_directory)
      /\ LacksIdentifier(disk[last'.path],
                         file_identifier(last'.path, selected_directory)))
     => /\ last'.text = file_identifier(last'.path, selected_directory)
                          \o <<NL>> \o clipboard
        /\ last'.wrote => disk'[last'.path] = TextFile(last'.text)
        /\ ~last'.wrote => disk'[last'.path] = disk[last'.path]]_vars

\* C16's case: a paste has just put the identifier before a clipboard text
\* that ends in a newline, on a file that had text without the identifier.
C16_Witness ==
  /\ last.op = "paste"
  /\ last.wrote
  /\ last.pushed
  /\ clipboard # <<>>
  /\ clipboard[Len(clipboard)] = NL
  /\ strip(splitlines(clipboard)[1]) # file_identifier(last.path, selected_directory)
  /\ disk[last.path] =
       TextFile(file_identifier(last.path, selected_directory) \o <<NL>> \o clipboard)
  /\ previous_versions[last.path] # <<>>
  /\ LET before == previous_versions[last.path][Len(previous_versions[last.path])]
     IN /\ before # <<>>
        /\ strip(splitlines(before)[1])
             # file_identifier(last.path, selected_directory)

(***************************************************************************)
(* Properties of the combined output (checked under SpecCombine).          *)
(***************************************************************************)
\* The identifier line combine gives a file: its name when it lies in the
\* root, else its directory (relative to the root when beneath it, absolute
\* otherwise), a slash and its name.
CombineHeader(p, root) ==
  IF p.dir = root THEN <<"#", SP, p.name>>
  ELSE IF IsPrefix(root, p.dir)
    THEN <<"#", SP>> \o JoinSegs(SubSeq(p.dir, Len(root) + 1, Len(p.dir)))
           \o <<"/", p.name>>
    ELSE <<"#", SP>> \o AbsPosix(p.dir) \o <<"/", p.name>>

\* The text begins with the line h.
BeginsWithLine(t, h) ==
  \/ t = h
  \/ /\ Len(t) > Len(h)
     /\ SubSeq(t, 1, Len(h) + 1) = h \o <<NL>>

\* The block of a readable file: its text, with its identifier line put
\* first when it is not there, and the separator.
ExpectedBlock(p) ==
  (IF BeginsWithLine(disk[p].text, CombineHeader(p, selected_directory))
     THEN disk[p].text
     ELSE CombineHeader(p, selected_directory) \o <<NL>> \o disk[p].text)
  \o <<NL, NL>>

\* The blocks of the checked readable entries from position i of the list on.
RECURSIVE ExpectedBlocksFrom(_)
ExpectedBlocksFrom(i) ==
  IF i > Len(file_paths) THEN <<>>
  ELSE (IF file_paths[i] \in checked_file_paths /\ disk[file_paths[i]].kind = "text"
          THEN ExpectedBlock(file_paths[i])
          ELSE <<>>)
       \o ExpectedBlocksFrom(i + 1)

\* C17: when every checked file is readable, combine gives one block per
\* checked file in list order, each the file's text headed by its identifier
\* line and followed by "\n\n"; unchecked files give nothing.  For foo.py
\* ("x\n", in the root) and b/x.py ("x\n") checked in this order the result is
\* "# foo.py\nx\n\n\n# b/x.py\nx\n\n\n".
C17_CombineBlocksInListOrder ==
  [][(/\ last'.op = "combine"
      /\ \A p \in checked_file_paths : disk[p].kind = "text")
     => /\ last'.text = ExpectedBlocksFrom(1)
        /\ last'.text # <<>> => clipboard' = last'.text
        /\ (/\ selected_directory = <<"r">>
            /\ selected_files(checkboxes) = <<P_foo, P_bx>>
            /\ disk[P_foo] = TextFile(<<"x", NL>>)
            /\ disk[P_bx] = TextFile(<<"x", NL>>))
           => last'.text = <<"#", SP, "foo.py", NL, "x", NL, NL, NL,
                             "#", SP, "b", "/", "x.py", NL, "x", NL, NL, NL>>]_vars

\* C17's case: combine has just put the two blocks of foo.py and b/x.py on
\* the clipboard while a third listed file was unchecked.
C17_Witness ==
  /\ last.op = "combine"
  /\ last.outcome = "ok"
  /\ selected_directory = <<"r">>
  /\ checked_file_paths = {P_foo, P_bx}
  /\ P_git \in Range(file_paths)
  /\ clipboard = <<"#", SP, "foo.py", NL, "x", NL, NL, NL,
                   "#", SP, "b", "/", "x.py", NL, "x", NL, NL, NL>>
  /\ clipboard = last.text

\* C18: combine passes over every checked file that is missing or cannot be
\* decoded and goes on with the others: its output is the blocks of the
\* readable checked files alone; when no file is checked or none of the
\* checked files is readable the output is empty, a warning is reported and
\* the clipboard keeps what it held.
C18_CombineSkipsUnreadable ==
  [][last'.op = "combine" =>
       /\ last'.text = ExpectedBlocksFrom(1)
       /\ IF \E p \in checked_file_paths : disk[p].kind = "text"
            THEN /\ last'.outcome = "ok"
                 /\ clipboard' = last'.text
            ELSE /\ last'.text = <<>>
                 /\ last'.outcome = "warning"
                 /\ clipboard' = clipboard]_vars

\* C18's case: all three files were checked, the middle one of the list could
\* not be read, and combine has just given the blocks of the two others.
C18_Witness ==
  /\ last.op = "combine"
  /\ last.outcome = "ok"
  /\ Len(file_paths) = 3
  /\ checked_file_paths = Range(file_paths)
  /\ disk[file_paths[2]].kind # "text"
  /\ clipboard = ExpectedBlock(file_paths[1]) \o ExpectedBlock(file_paths[3])

\* C18's other case: the only checked file is missing, combine has just
\* warned, and the clipboard still holds an earlier output.
C18_AllSkippedWitness ==
  /\ last.op = "combine"
  /\ last.outcome = "warning"
  /\ checked_file_paths # {}
  /\ \A p \in checked_file_paths : disk[p].kind = "absent"
  /\ clipboard # <<>>

(***************************************************************************)
(* Header injection (checked under SpecText).                              *)
(***************************************************************************)
\* The header injection of combine_code: its block without the separator.
InjectByCombine(t, ident) ==
  SubSeq(combine_block(t, ident), 1, Len(combine_block(t, ident)) - 2)

\* Injecting the identifier into t twice gives what injecting it once gives,
\* and gives t itself when the first line of t, stripped, is the identifier;
\* for the injection of copy and for that of combine.
InjectionIdempotentOn(t, ident) ==
  /\ clipboard_content(clipboard_content(t, ident), ident)
       = clipboard_content(t, ident)
  /\ InjectByCombine(InjectByCombine(t, ident), ident) = InjectByCombine(t, ident)
  /\ InjectByCombine(t, ident) = clipboard_content(t, ident)
  /\ StartsWithIdentifier(t, ident)
       => (clipboard_content(t, ident) = t /\ InjectByCombine(t, ident) = t)
  /\ ~StartsWithIdentifier(t, ident)
       => clipboard_content(t, ident) = ident \o <<NL>> \o t

\* C19: header injection is idempotent: injecting the identifier again into
\* an injected text changes nothing, and a text whose first line, stripped,
\* is the identifier gets no second header; for every text the file or the
\* clipboard holds, and for what a copy has just put on the clipboard.
C19_HeaderInjectionIdempotent ==
  /\ disk[P_foo].kind = "text"
       => InjectionIdempotentOn(disk[P_foo].text,
                                file_identifier(P_foo, selected_directory))
  /\ InjectionIdempotentOn(clipboard, file_identifier(P_foo, selected_directory))
  /\ (last.op = "copy" /\ last.outcome = "ok")
       => clipboard_content(clipboard, file_identifier(P_foo, selected_directory))
            = clipboard

\* C19's case: a copy has just injected the identifier into a text that did
\* not start with it.
C19_Witness ==
  /\ last.op = "copy"
  /\ last.outcome = "ok"
  /\ disk[P_foo].kind = "text"
  /\ disk[P_foo].text # <<>>
  /\ ~StartsWithIdentifier(disk[P_foo].text,
                           file_identifier(P_foo, selected_directory))
  /\ clipboard = file_identifier(P_foo, selected_directory)
                   \o <<NL>> \o disk[P_foo].text

(***************************************************************************)
(* The directory scan (checked under SpecScan).                            *)
(***************************************************************************)
\* The file is one a scan of root has to yield: it exists under root, no
\* directory between root and the file has an excluded name, and it passes
\* the path filter.
ToBeScanned(p, root) ==
  /\ disk[p].kind # "absent"
  /\ Len(root) <= Len(p.dir)
  /\ SubSeq(p.dir, 1, Len(root)) = root
  /\ \A i \in (Len(root) + 1)..Len(p.dir) :
       p.dir[i] \notin {"__pycache__", ".git", ".venv", "venv", ".idea", ".vscode"}
  /\ PassesFilter(p)

\* The label of the group of a file under root: the sentinel for the root
\* itself, else the directory's path relative to root.
GroupLabel(p, root) ==
  IF p.dir = root THEN <<"(top-level)">>
  ELSE JoinSegs(SubSeq(p.dir, Len(root) + 1, Len(p.dir)))

\* C20: the groups of the scan hold exactly the files under the root that pass
\* the filter and lie beneath no excluded directory, each once, under the
\* label of its directory relative to the root, the sentinel standing for the
\* root itself and for nothing else; no group is empty, and the groups are
\* those of the present root alone.
C20_ScanGroupsExactlyTheCandidates ==
  /\ \A p \in FsPaths :
       ToBeScanned(p, selected_directory)
         <=> \E l \in DOMAIN tab_file_checkboxes :
               p \in Range(tab_file_checkboxes[l])
  /\ \A l \in DOMAIN tab_file_checkboxes :
       /\ tab_file_checkboxes[l] # <<>>
       /\ \A i, j \in DOMAIN tab_file_checkboxes[l] :
            i # j => tab_file_checkboxes[l][i] # tab_file_checkboxes[l][j]
       /\ \A i \in DOMAIN tab_file_checkboxes[l] :
            /\ l = GroupLabel(tab_file_checkboxes[l][i], selected_directory)
            /\ (l = <<"(top-level)">>)
                 <=> (tab_file_checkboxes[l][i].dir = selected_directory)

\* The state C20 does not allow for: under the root /r the group of the
\* sentinel label holds the files of the root and the file of the
\* subdirectory named "(top-level)".
C20_SentinelGroupOfTwoDirectories ==
  /\ selected_directory = <<"r">>
  /\ <<"(top-level)">> \in DOMAIN tab_file_checkboxes
  /\ {P_foo, P_top} \subseteq Range(tab_file_checkboxes[<<"(top-level)">>])

(***************************************************************************)
(* Single-file copy (checked under SpecText).                              *)
(***************************************************************************)
\* The first line of t as a file read gives it: what precedes the first "\n".
FirstLine(t) ==
  IF \E k \in DOMAIN t : t[k] = NL
    THEN SubSeq(t, 1, (CHOOSE k \in DOMAIN t :
                         t[k] = NL /\ \A j \in 1..(k - 1) : t[j] # NL) - 1)
    ELSE t

\* C21: a copy of a readable file puts on the clipboard the file's text, with
\* the identifier line before it exactly when the first line of the text,
\* stripped, is not the identifier, and with nothing after it; for an empty
\* file the clipboard holds the identifier line alone; a copy of a file that
\* cannot be read or decoded leaves the clipboard as it was.
C21_CopyPutsTextWithIdentifier ==
  [][last'.op = "copy"
     => LET p == last'.path
            ident == file_identifier(p, selected_directory)
            t == read_text(disk, p)
        IN IF disk[p].kind = "text"
             THEN /\ t = <<>> => clipboard' = ident \o <<NL>>
                  /\ (t # <<>> /\ strip(FirstLine(t)) = ident) => clipboard' = t
                  /\ (t # <<>> /\ strip(FirstLine(t)) # ident)
                       => clipboard' = ident \o <<NL>> \o t
             ELSE clipboard' = clipboard]_vars

\* C21's case: a copy of a file whose first line is the identifier, with a
\* body after it, has put the file's text on the clipboard as it is.
C21_Witness ==
  /\ last.op = "copy"
  /\ last.outcome = "ok"
  /\ disk[P_foo] = TextFile(<<"#", SP, "foo.py", NL, "x">>)
  /\ clipboard = <<"#", SP, "foo.py", NL, "x">>

\* C21's other case: a copy of an empty file has put the identifier line alone
\* on the clipboard.
C21_EmptyFileWitness ==
  /\ last.op = "copy"
  /\ disk[P_foo] = TextFile(<<>>)
  /\ clipboard = <<"#", SP, "foo.py", NL>>

(***************************************************************************)
(* The warnings of combine (checked under SpecCombine).                    *)
(***************************************************************************)
\* The names of the selected files that combine cannot take: missing, or not
\* decodable.
AffectedNames == {p.name : p \in {q \in Range(selected_files(checkboxes)) :
                                    ~Readable(disk, q)}}

\* C22: when several checked files are missing or cannot be decoded during
\* one combine, the operation shows exactly one warning, and that warning
\* lists the names of the affected files.
C22_OneAggregatedWarning ==
  [][(last'.op = "combine" /\ Cardinality(AffectedNames) >= 2)
     => /\ Len(last'.skipped) = 1
        /\ Range(last'.skipped[1].names) = AffectedNames]_vars

\* What combine does instead: one message box for each affected file, in the
\* order of the list, each naming its own file.
C22_OneWarningPerAffectedFile ==
  [][last'.op = "combine"
     => /\ Len(last'.skipped)
             = Cardinality({q \in Range(selected_files(checkboxes)) :
                              ~Readable(disk, q)})
        /\ \A i \in DOMAIN last'.skipped : Len(last'.skipped[i].names) = 1]_vars

(***************************************************************************)
(* The identifier of combine and that of copy and paste (checked under     *)
(* SpecIdentifier).                                                        *)
(***************************************************************************)
\* C23: the identifier line combine injects for a file is the identifier line
\* copy and paste use for that file under the same root: a combine of one
\* readable file gives a text whose first line is "# " and the path of the
\* file relative to the root, or its absolute path when it lies outside.
C23_CombineUsesTheIdentifierOfCopy ==
  [][(/\ last'.op = "combine"
      /\ Len(selected_files(checkboxes)) = 1
      /\ Readable(disk, selected_files(checkboxes)[1]))
     => strip(FirstLine(last'.text))
          = <<"#", SP>> \o relative_or_absolute(selected_files(checkboxes)[1],
                                                selected_directory)]_vars

\* Where the two identifiers are the same: for the files that are neither in
\* a directory whose path from the root is "(top-level)" nor directly in the
\* root of the file system, under every root.
C23_SameIdentifierElsewhere ==
  \A p \in FsPaths \cup {P_fsroot} :
    (relative_dir(p, selected_directory) \notin {<<"(top-level)">>, <<"/">>})
      => combine_identifier(p, selected_directory)
           = file_identifier(p, selected_directory)

\* The two identifiers of the file in "(top-level)" under the root /r, and of
\* a file in the root of the file system, after a combine of the first.
C23_TwoIdentifiers ==
  /\ selected_directory = <<"r">>
  /\ file_identifier(P_top, selected_directory) = <<"#", SP, "(top-level)", "/", "x.py">>
  /\ combine_identifier(P_top, selected_directory) = <<"#", SP, "x.py">>
  /\ file_identifier(P_fsroot, selected_directory) = <<"#", SP, "/", "h.py">>
  /\ combine_identifier(P_fsroot, selected_directory) = <<"#", SP, "/", "/", "h.py">>
  /\ last.op = "combine"
  /\ last.text = <<"#", SP, "x.py", NL, "x", NL, NL, NL>>

(***************************************************************************)
(* Paste twice, paste then revert (checked under SpecText and SpecRevert). *)
(***************************************************************************)
\* C24: paste is idempotent on the content of the file: a second successful
\* paste of the same clipboard text into the same file, right after the
\* first, leaves the file with the content the first paste gave it.
C24_PasteTwiceIsPasteOnce ==
  [][(/\ last.op = "paste" /\ last.outcome = "ok"
      /\ last'.op = "paste" /\ last'.outcome = "ok"
      /\ last'.path = last.path
      /\ clipboard # <<>>)
     => disk'[last.path] = disk[last.path]]_vars

\* A state in which the second paste differs: the file holds the identifier
\* and the clipboard's line without the clipboard's final newline, after a
\* first paste had written it with that newline.
C24_SecondPasteDropsNewline ==
  /\ last.op = "paste"
  /\ last.outcome = "ok"
  /\ clipboard = <<"x", NL>>
  /\ disk[P_foo] = TextFile(<<"#", SP, "foo.py", NL, "x">>)
  /\ previous_versions[P_foo] # <<>>
  /\ previous_versions[P_foo][Len(previous_versions[P_foo])]
       = <<"#", SP, "foo.py", NL, "x", NL>>

\* C25: a successful paste to an existing, readable file whose stack was not
\* full, followed at once by a successful revert of the same file, leaves the
\* file with the content it had before the paste and the stack of the file as
\* it was before the paste.
C25_PasteThenRevertRestores ==
  [][(/\ last.op = "paste" /\ last.outcome = "ok"
      /\ last.before.kind = "text"
      /\ last.hist_len < HistoryLimit
      /\ last'.op = "revert" /\ last'.outcome = "ok"
      /\ last'.path = last.path)
     => /\ disk'[last.path] = last.before
        /\ Len(previous_versions'[last.path]) = last.hist_len
        /\ previous_versions'[last.path]
             = SubSeq(previous_versions[last.path], 1, last.hist_len)]_vars

\* What the pair does restore: the text of the file as a read decodes it
\* (every "\r\n" and "\r" as "\n"), and the stack.
C25_PasteThenRevertRestoresDecodedText ==
  [][(/\ last.op = "paste" /\ last.outcome = "ok"
      /\ last.before.kind = "text"
      /\ last.hist_len < HistoryLimit
      /\ last'.op = "revert" /\ last'.outcome = "ok"
      /\ last'.path = last.path)
     => /\ disk'[last.path] = TextFile(universal_newlines(last.before.text))
        /\ Len(previous_versions'[last.path]) = last.hist_len
        /\ previous_versions'[last.path]
             = SubSeq(previous_versions[last.path], 1, last.hist_len)]_vars

\* The state between the two: the paste found a file whose line ends in
\* "\r\n", and the snapshot a revert will write has the line ending in "\n".
C25_SnapshotWithoutCarriageReturn ==
  /\ last.op = "paste"
  /\ last.outcome = "ok"
  /\ last.before = TextFile(<<"x", CR, NL>>)
  /\ previous_versions[P_foo] = <<(<<"x", NL>>)>>

(***************************************************************************)
(* Failed writes and the frame of the text operations (checked under       *)
(* SpecHistory).                                                           *)
(***************************************************************************)
\* C26: a revert or a paste whose write of the file fails leaves the history
\* stack of every path as it was before the operation (so that the snapshot
\* a failed revert tried to apply is still on top).
C26_FailedWriteLeavesHistory ==
  [][(last'.op \in {"paste", "revert"} /\ last'.outcome = "error")
     => previous_versions' = previous_versions]_vars

\* A state after a revert whose write failed: the file is what it was, and
\* the snapshot is gone from the stack.
C26_SnapshotLostByFailedRevert ==
  /\ last.op = "revert"
  /\ last.outcome = "error"
  /\ disk[last.path] = last.before
  /\ Len(previous_versions[last.path]) = last.hist_len - 1

\* A state after a paste whose write failed: the file is what it was, and the
\* stack has one snapshot more.
C26_SnapshotLeftByFailedPaste ==
  /\ last.op = "paste"
  /\ last.outcome = "error"
  /\ disk[last.path] = last.before
  /\ Len(previous_versions[last.path]) = last.hist_len + 1

(***************************************************************************)
(* The stored list (checked under Spec).                                   *)
(***************************************************************************)
\* C27: after every operation that can change the list (add from a group,
\* upload-add, upload-replace, remove, move checked to the top, the filter
\* before a scan), the list stored under the settings key for the file paths
\* is the list in memory: as many entries, and entry i is the posix form of
\* the i-th path.
C27_StoredListIsTheList ==
  /\ Len(settings_file_paths) = Len(file_paths)
  /\ \A i \in DOMAIN file_paths :
       settings_file_paths[i] = <<"/">> \o JoinSegs(Append(file_paths[i].dir,
                                                           file_paths[i].name))

\* C27's case: a move has put a checked file before an unchecked one that
\* preceded it, and the stored list has the new order.
C27_Witness ==
  /\ last.op = "move"
  /\ last.outcome = "ok"
  /\ Len(file_paths) = 2
  /\ last.input = <<file_paths[2], file_paths[1]>>
  /\ settings_file_paths = <<as_posix(file_paths[1]), as_posix(file_paths[2])>>

\* C28: copy, paste, revert and combine leave the list and the checked set as
\* they were, whether they succeed or fail; a paste or a revert of one path
\* leaves the content and the history stack of every other path as they were.
C28_TextOperationsFrame ==
  [][(last'.op \in {"copy", "paste", "revert", "combine"})
     => /\ file_paths' = file_paths
        /\ checked_file_paths' = checked_file_paths
        /\ (last'.op \in {"paste", "revert"})
             => \A q \in FsPaths \ {last'.path} :
                  /\ disk'[q] = disk[q]
                  /\ previous_versions'[q] = previous_versions[q]]_vars

\* C28's case: a paste has written its file and pushed a snapshot of it, the
\* file being listed and checked, and the other files have no snapshot and
\* the text they had.
C28_Witness ==
  /\ last.op = "paste"
  /\ last.wrote
  /\ last.pushed
  /\ file_paths = <<last.path>>
  /\ checked_file_paths = {last.path}
  /\ disk[last.path] # last.before
  /\ \A q \in FsPaths \ {last.path} :
       disk[q] = TextFile(DefaultText) /\ previous_versions[q] = <<>>

(***************************************************************************)
(* Combine and the order of the list (checked under SpecCombine).          *)
(***************************************************************************)
\* C29: the text combine produces is the same after move-checked-to-top as
\* before it, for the same checked files, root and disk.
C29_CombineUnchangedByMove ==
  [][last'.op = "move"
     => combine_code(checkboxes', disk', selected_directory')
          = combine_code(checkboxes, disk, selected_directory)]_vars

\* C29's case: a move has changed the order of the list, two files that
\* combine can read are checked, and an unchecked file stood before one of
\* them.
C29_Witness ==
  /\ last.op = "move"
  /\ last.outcome = "ok"
  /\ file_paths # last.input
  /\ Len(selected_files(checkboxes)) = 2
  /\ \A i \in DOMAIN checkboxes :
       checkboxes[i].checked => Readable(disk, checkboxes[i].file_path)
  /\ combine_code(checkboxes, disk, selected_directory) # <<>>

=============================================================================
